---- MODULE Spec2Model ----
(***************************************************************************)
(* Model of the ClientApp constructor (environment resolution and fan-out  *)
(* of the channel configuration to the capability APIs).                   *)
(*                                                                         *)
(* JavaScript values are records tagged by the field t:                    *)
(*   [t |-> "undefined"], [t |-> "null"], [t |-> "string", s |-> chunks],  *)
(*   [t |-> "array", items |-> seq], [t |-> "object", ...],                *)
(*   [t |-> "PcEnv", pcEnvTld |-> string, pcAppOrigin |-> string].         *)
(* A string is a sequence of chunks; a chunk stands for a run of           *)
(* characters ("mypurecloud.com", " ", "https://apps.").                   *)
(***************************************************************************)
EXTENDS Naturals, Sequences, FiniteSets, TLC

VARIABLES cfg, window, pc, _pcEnv, _customPcOrigin, parsedQueryString,
          apiCfg, apis, thrown

vars == <<cfg, window, pc, _pcEnv, _customPcOrigin, parsedQueryString,
          apiCfg, apis, thrown>>

----------------------------------------------------------------------------
(* Bounds of the input space *)

\* total number of chunks in the strings of the constructor config
MaxCfgChunks == 2
\* number of key[=value] pairs of the page's query string
MaxParams == 2
\* total number of chunks in the keys and values of the page's query string
MaxQueryChunks == 3

----------------------------------------------------------------------------
(* JavaScript values *)

Undefined == [t |-> "undefined"]
Null == [t |-> "null"]
Str(s) == [t |-> "string", s |-> s]

typeof(v) == IF v.t \in {"null", "array", "PcEnv"} THEN "object" ELSE v.t

\* ToBoolean: undefined, null and "" are falsy; objects and non-empty strings truthy
Truthy(v) ==
    CASE v.t = "undefined" -> FALSE
      [] v.t = "null" -> FALSE
      [] v.t = "string" -> Len(v.s) > 0
      [] OTHER -> TRUE

hasOwnProperty(o, k) == k \in DOMAIN o.props

\* o[k]: undefined for a property the object does not have
Get(o, k) == IF k \in DOMAIN o.props THEN o.props[k] ELSE Undefined

----------------------------------------------------------------------------
(* Strings *)

WhiteSpace == {" ", "\t"}
NameChunks == {" ", "env"}
KeyChunks == {"env"}
HintChunks == {" ", "mypurecloud.com", "MYPURECLOUD.IE", "https://apps.", "example-host.test"}

RECURSIVE TrimStart(_)
TrimStart(s) ==
    IF s # <<>> /\ Head(s) \in WhiteSpace THEN TrimStart(Tail(s)) ELSE s

RECURSIVE TrimEnd(_)
TrimEnd(s) ==
    IF s # <<>> /\ s[Len(s)] \in WhiteSpace
    THEN TrimEnd(SubSeq(s, 1, Len(s) - 1))
    ELSE s

\* String.prototype.trim
trim(s) == TrimEnd(TrimStart(s))

StrOfLen(chunks, n) == [1..n -> chunks]
StrUpTo(chunks, n) == UNION {StrOfLen(chunks, k) : k \in 0..n}

LowerChunk(c) == IF c = "MYPURECLOUD.IE" THEN "mypurecloud.ie" ELSE c

\* String.prototype.toLowerCase
toLowerCase(s) == [i \in 1..Len(s) |-> LowerChunk(s[i])]

\* String.prototype.includes: sub occurs in s as a contiguous run
includes(s, sub) ==
    \E i \in 0..(Len(s) - Len(sub)) : SubSeq(s, i + 1, i + Len(sub)) = sub

----------------------------------------------------------------------------
(* utils/env: the environment catalog *)

buildPcEnv(tld) ==
    [t |-> "PcEnv", pcEnvTld |-> Str(<<tld>>), pcAppOrigin |-> Str(<<"https://apps.", tld>>)]

PC_ENVS == <<buildPcEnv("mypurecloud.com"), buildPcEnv("mypurecloud.ie")>>

DEFAULT_PC_ENV == PC_ENVS[1]

EnvMatches(env, hint, lenient) ==
    IF lenient
    THEN includes(toLowerCase(hint.s), env.pcEnvTld.s)
    ELSE hint.s = env.pcEnvTld.s

\* the first catalog entry the hint matches, or null
lookupPcEnv(hint, lenient) ==
    LET hits == {i \in 1..Len(PC_ENVS) : EnvMatches(PC_ENVS[i], hint, lenient)}
    IN  IF hint.t # "string" \/ hits = {}
        THEN Null
        ELSE PC_ENVS[CHOOSE i \in hits : \A j \in hits : i <= j]

----------------------------------------------------------------------------
(* query-string: parse *)

\* the values of key k in the order they occur in the query
RECURSIVE ValuesOf(_, _)
ValuesOf(q, k) ==
    IF q = <<>> THEN <<>>
    ELSE (IF Head(q).key = k THEN <<Head(q).value>> ELSE <<>>) \o ValuesOf(Tail(q), k)

\* a key that occurs once maps to its value (null when it has no "="),
\* a key that occurs several times maps to the array of its values
parse(q) ==
    [t |-> "object",
     props |-> [k \in {q[i].key : i \in 1..Len(q)} |->
                  LET vs == ValuesOf(q, k)
                  IN  IF Len(vs) = 1 THEN vs[1] ELSE [t |-> "array", items |-> vs]]]

----------------------------------------------------------------------------
(* Inputs *)

OptionKeys == {"pcEnvironmentQueryParam", "pcEnvironment", "pcOrigin"}
CfgKeys == OptionKeys \cup {"unrecognized"}

Absent == [t |-> "absent"]

Cost(v) == IF v.t = "string" THEN Len(v.s) ELSE 0

\* what a caller may put under an option key: nothing, a non-string or a string
Choice(chunks, budget) ==
    {Absent, Undefined, Null} \cup {Str(s) : s \in StrUpTo(chunks, budget)}

MkCfg(q, e, o, u) ==
    LET all == [k \in CfgKeys |->
                  CASE k = "pcEnvironmentQueryParam" -> q
                    [] k = "pcEnvironment" -> e
                    [] k = "pcOrigin" -> o
                    [] OTHER -> u]
    IN  [t |-> "object", props |-> [k \in {x \in CfgKeys : all[x] # Absent} |-> all[k]]]

Configs ==
    {Undefined, Null} \cup
    UNION { UNION { UNION { { MkCfg(q, e, o, u) : u \in {Absent} \cup {Str(s) : s \in StrOfLen({"env"}, IF MaxCfgChunks - Cost(q) - Cost(e) - Cost(o) > 0 THEN 1 ELSE 0) \ {<<>>}} }
        : o \in Choice(HintChunks, MaxCfgChunks - Cost(q) - Cost(e)) }
        : e \in Choice(HintChunks, MaxCfgChunks - Cost(q)) }
        : q \in Choice(NameChunks, MaxCfgChunks) }

\* one key[=value] pair of a query string costing at most budget chunks
Params(budget) ==
    UNION { { [key |-> k, value |-> v] :
                k \in StrOfLen(KeyChunks, n),
                v \in {Null} \cup {Str(s) : s \in StrUpTo(HintChunks, budget - n)} }
          : n \in 1..budget }

RECURSIVE Queries(_, _)
Queries(n, budget) ==
    IF n = 0 THEN {<<>>}
    ELSE {<<>>} \cup
         UNION { { <<p>> \o q : q \in Queries(n - 1, budget - Len(p.key) - Cost(p.value)) }
               : p \in Params(budget) }

\* the page: no location, or a location with its (decoded) query
Windows ==
    {[t |-> "object", location |-> Null]} \cup
    {[t |-> "object", location |-> [t |-> "object", search |-> q]]
        : q \in Queries(MaxParams, MaxQueryChunks)}

----------------------------------------------------------------------------
(* ClientApp *)

ApiNames == <<"alerting", "lifecycle", "coreUi", "users", "conversations",
              "myConversations", "externalContacts">>

\* a capability API keeps the target origin of the configuration it is given
NewApi(c) == [t |-> "api", targetPcOrigin |-> c.targetPcOrigin]

\* the field initialisers; the page is not observed before _getQueryString runs
Init ==
    /\ cfg \in Configs
    /\ window = Undefined
    /\ pc = "entry"
    /\ _pcEnv = Null
    /\ _customPcOrigin = Null
    /\ parsedQueryString = Undefined
    /\ apiCfg = Undefined
    /\ apis = <<>>
    /\ thrown = "none"

\* the cfg parameter after its default value {} is applied
cfgParam == IF cfg.t = "undefined" THEN [t |-> "object", props |-> <<>>] ELSE cfg

\* mutant: the value is not trimmed before its length is tested
InvalidString_NoTrim(v) == typeof(v) # "string" \/ Len(v.s) = 0

\* typeof v !== 'string' || v.trim().length === 0
InvalidString(v) == typeof(v) # "string" \/ Len(trim(v.s)) = 0

\* mutant: the error is recorded but the constructor carries on
Throw_Continue(msg) ==
    /\ pc' = "default"
    /\ thrown' = msg

\* throw new Error(msg): the constructor ends here
Throw(msg) ==
    /\ pc' = "threw"
    /\ thrown' = msg

\* static _getQueryString()
_getQueryString(w) ==
    IF Truthy(w) /\ Truthy(w.location) THEN Str(w.location.search) ELSE Null

\* paramName check of the pcEnvironmentQueryParam branch
CheckParamName ==
    /\ pc = "entry"
    /\ Truthy(cfgParam)
    /\ hasOwnProperty(cfgParam, "pcEnvironmentQueryParam")
    /\ LET paramName == Get(cfgParam, "pcEnvironmentQueryParam")
       IN  IF InvalidString(paramName)
           THEN Throw("Invalid query param name provided")
           ELSE pc' = "getQueryString" /\ UNCHANGED thrown
    /\ UNCHANGED <<cfg, window, _pcEnv, _customPcOrigin, parsedQueryString, apiCfg, apis>>

\* queryString.parse(ClientApp._getQueryString() || ''), on the page as it is then
ParseQueryString ==
    /\ pc = "getQueryString"
    /\ \E w \in Windows :
        /\ window' = w
        /\ LET qs == _getQueryString(w)
           IN  parsedQueryString' = parse(IF Truthy(qs) THEN qs.s ELSE <<>>)
    /\ pc' = "paramValue"
    /\ UNCHANGED <<cfg, _pcEnv, _customPcOrigin, apiCfg, apis, thrown>>

\* mutant: of a repeated parameter the first value is taken
LookupParamValue_FirstOfArray ==
    /\ pc = "paramValue"
    /\ LET paramName == Get(cfgParam, "pcEnvironmentQueryParam")
           found == Get(parsedQueryString, paramName.s)
           paramValue == IF found.t = "array" THEN found.items[1] ELSE found
       IN  IF Truthy(paramValue) /\ typeof(paramValue) = "string"
           THEN /\ _pcEnv' = lookupPcEnv(paramValue, TRUE)
                /\ IF ~Truthy(_pcEnv')
                   THEN Throw("Could not parse into a known PureCloud environment")
                   ELSE pc' = "default" /\ UNCHANGED thrown
           ELSE /\ Throw("Could not find unique value on Query String")
                /\ UNCHANGED _pcEnv
    /\ UNCHANGED <<cfg, window, _customPcOrigin, parsedQueryString, apiCfg, apis>>

\* mutant: the query value is looked up exactly, not leniently
LookupParamValue_Exact ==
    /\ pc = "paramValue"
    /\ LET paramName == Get(cfgParam, "pcEnvironmentQueryParam")
           paramValue == Get(parsedQueryString, paramName.s)
       IN  IF Truthy(paramValue) /\ typeof(paramValue) = "string"
           THEN /\ _pcEnv' = lookupPcEnv(paramValue, FALSE)
                /\ IF ~Truthy(_pcEnv')
                   THEN Throw("Could not parse into a known PureCloud environment")
                   ELSE pc' = "default" /\ UNCHANGED thrown
           ELSE /\ Throw("Could not find unique value on Query String")
                /\ UNCHANGED _pcEnv
    /\ UNCHANGED <<cfg, window, _customPcOrigin, parsedQueryString, apiCfg, apis>>

\* the rest of the pcEnvironmentQueryParam branch
LookupParamValue ==
    /\ pc = "paramValue"
    /\ LET paramName == Get(cfgParam, "pcEnvironmentQueryParam")
           paramValue == Get(parsedQueryString, paramName.s)
       IN  IF Truthy(paramValue) /\ typeof(paramValue) = "string"
           THEN /\ _pcEnv' = lookupPcEnv(paramValue, TRUE)
                /\ IF ~Truthy(_pcEnv')
                   THEN Throw("Could not parse into a known PureCloud environment")
                   ELSE pc' = "default" /\ UNCHANGED thrown
           ELSE /\ Throw("Could not find unique value on Query String")
                /\ UNCHANGED _pcEnv
    /\ UNCHANGED <<cfg, window, _customPcOrigin, parsedQueryString, apiCfg, apis>>

\* mutant: "if" in place of "else if": the branch no longer yields to
\* pcEnvironmentQueryParam
ResolvePcEnvironment_NoElse ==
    /\ pc = "entry"
    /\ Truthy(cfgParam)
    /\ hasOwnProperty(cfgParam, "pcEnvironment")
    /\ LET pcEnvironment == Get(cfgParam, "pcEnvironment")
       IN  IF InvalidString(pcEnvironment)
           THEN /\ Throw("Invalid pcEnvironment provided")
                /\ UNCHANGED _pcEnv
           ELSE /\ _pcEnv' = lookupPcEnv(pcEnvironment, TRUE)
                /\ IF ~Truthy(_pcEnv')
                   THEN Throw("Could not parse into a known PureCloud environment")
                   ELSE pc' = "default" /\ UNCHANGED thrown
    /\ UNCHANGED <<cfg, window, _customPcOrigin, parsedQueryString, apiCfg, apis>>

\* mutant: an unknown environment is not rejected, the default takes over
ResolvePcEnvironment_Fallback ==
    /\ pc = "entry"
    /\ Truthy(cfgParam)
    /\ ~hasOwnProperty(cfgParam, "pcEnvironmentQueryParam")
    /\ hasOwnProperty(cfgParam, "pcEnvironment")
    /\ LET pcEnvironment == Get(cfgParam, "pcEnvironment")
       IN  IF InvalidString(pcEnvironment)
           THEN /\ Throw("Invalid pcEnvironment provided")
                /\ UNCHANGED _pcEnv
           ELSE /\ _pcEnv' = lookupPcEnv(pcEnvironment, TRUE)
                /\ pc' = "default"
                /\ UNCHANGED thrown
    /\ UNCHANGED <<cfg, window, _customPcOrigin, parsedQueryString, apiCfg, apis>>

\* the pcEnvironment branch
ResolvePcEnvironment ==
    /\ pc = "entry"
    /\ Truthy(cfgParam)
    /\ ~hasOwnProperty(cfgParam, "pcEnvironmentQueryParam")
    /\ hasOwnProperty(cfgParam, "pcEnvironment")
    /\ LET pcEnvironment == Get(cfgParam, "pcEnvironment")
       IN  IF InvalidString(pcEnvironment)
           THEN /\ Throw("Invalid pcEnvironment provided")
                /\ UNCHANGED _pcEnv
           ELSE /\ _pcEnv' = lookupPcEnv(pcEnvironment, TRUE)
                /\ IF ~Truthy(_pcEnv')
                   THEN Throw("Could not parse into a known PureCloud environment")
                   ELSE pc' = "default" /\ UNCHANGED thrown
    /\ UNCHANGED <<cfg, window, _customPcOrigin, parsedQueryString, apiCfg, apis>>

\* mutant: the origin is stored trimmed
ResolvePcOrigin_Trimmed ==
    /\ pc = "entry"
    /\ Truthy(cfgParam)
    /\ ~hasOwnProperty(cfgParam, "pcEnvironmentQueryParam")
    /\ ~hasOwnProperty(cfgParam, "pcEnvironment")
    /\ hasOwnProperty(cfgParam, "pcOrigin")
    /\ LET pcOrigin == Get(cfgParam, "pcOrigin")
       IN  IF InvalidString(pcOrigin)
           THEN /\ Throw("Invalid pcOrigin provided")
                /\ UNCHANGED _customPcOrigin
           ELSE /\ _customPcOrigin' = Str(trim(pcOrigin.s))
                /\ pc' = "default"
                /\ UNCHANGED thrown
    /\ UNCHANGED <<cfg, window, _pcEnv, parsedQueryString, apiCfg, apis>>

\* the pcOrigin branch
ResolvePcOrigin ==
    /\ pc = "entry"
    /\ Truthy(cfgParam)
    /\ ~hasOwnProperty(cfgParam, "pcEnvironmentQueryParam")
    /\ ~hasOwnProperty(cfgParam, "pcEnvironment")
    /\ hasOwnProperty(cfgParam, "pcOrigin")
    /\ LET pcOrigin == Get(cfgParam, "pcOrigin")
       IN  IF InvalidString(pcOrigin)
           THEN /\ Throw("Invalid pcOrigin provided")
                /\ UNCHANGED _customPcOrigin
           ELSE /\ _customPcOrigin' = pcOrigin
                /\ pc' = "default"
                /\ UNCHANGED thrown
    /\ UNCHANGED <<cfg, window, _pcEnv, parsedQueryString, apiCfg, apis>>

\* mutant: no "if (cfg)" guard, so that a null cfg fails on its first use
NoOption_NoGuard ==
    /\ pc = "entry"
    /\ IF ~Truthy(cfgParam)
       THEN Throw("Cannot read properties of null")
       ELSE /\ \A k \in OptionKeys : ~hasOwnProperty(cfgParam, k)
            /\ pc' = "default"
            /\ UNCHANGED thrown
    /\ UNCHANGED <<cfg, window, _pcEnv, _customPcOrigin, parsedQueryString, apiCfg, apis>>

\* a falsy cfg, or a cfg with none of the three options
NoOption ==
    /\ pc = "entry"
    /\ \/ ~Truthy(cfgParam)
       \/ /\ Truthy(cfgParam)
          /\ \A k \in OptionKeys : ~hasOwnProperty(cfgParam, k)
    /\ pc' = "default"
    /\ UNCHANGED <<cfg, window, _pcEnv, _customPcOrigin, parsedQueryString, apiCfg, apis, thrown>>

\* mutant: the default is applied whenever no environment is set, custom origin or not
UseDefault_Always ==
    /\ pc = "default"
    /\ _pcEnv' = IF ~Truthy(_pcEnv) THEN DEFAULT_PC_ENV ELSE _pcEnv
    /\ pc' = "apiCfg"
    /\ UNCHANGED <<cfg, window, _customPcOrigin, parsedQueryString, apiCfg, apis, thrown>>

\* if (!this._pcEnv && !this._customPcOrigin) this._pcEnv = envUtils.DEFAULT_PC_ENV
UseDefault ==
    /\ pc = "default"
    /\ _pcEnv' = IF ~Truthy(_pcEnv) /\ ~Truthy(_customPcOrigin) THEN DEFAULT_PC_ENV ELSE _pcEnv
    /\ pc' = "apiCfg"
    /\ UNCHANGED <<cfg, window, _customPcOrigin, parsedQueryString, apiCfg, apis, thrown>>

\* const apiCfg = { targetPcOrigin: ... }
BuildApiCfg ==
    /\ pc = "apiCfg"
    /\ apiCfg' = [t |-> "object",
                  targetPcOrigin |-> IF Truthy(_pcEnv) THEN _pcEnv.pcAppOrigin ELSE _customPcOrigin]
    /\ pc' = "apis"
    /\ UNCHANGED <<cfg, window, _pcEnv, _customPcOrigin, parsedQueryString, apis, thrown>>

\* mutant: the last API is handed a configuration of its own, built from the
\* custom origin alone
ConstructApi_OwnCfg ==
    /\ pc = "apis"
    /\ apis' = Append(apis,
                 [name |-> ApiNames[Len(apis) + 1],
                  api |-> NewApi(IF Len(apis) + 1 = Len(ApiNames)
                                 THEN [t |-> "object", targetPcOrigin |-> _customPcOrigin]
                                 ELSE apiCfg)])
    /\ pc' = IF Len(apis') = Len(ApiNames) THEN "done" ELSE "apis"
    /\ UNCHANGED <<cfg, window, _pcEnv, _customPcOrigin, parsedQueryString, apiCfg, thrown>>

\* this.<name> = new <Name>Api(apiCfg), in the order of the assignments
ConstructApi ==
    /\ pc = "apis"
    /\ apis' = Append(apis, [name |-> ApiNames[Len(apis) + 1], api |-> NewApi(apiCfg)])
    /\ pc' = IF Len(apis') = Len(ApiNames) THEN "done" ELSE "apis"
    /\ UNCHANGED <<cfg, window, _pcEnv, _customPcOrigin, parsedQueryString, apiCfg, thrown>>

Next ==
    \/ CheckParamName
    \/ ParseQueryString
    \/ LookupParamValue
    \/ ResolvePcEnvironment
    \/ ResolvePcOrigin
    \/ NoOption
    \/ UseDefault
    \/ BuildApiCfg
    \/ ConstructApi

Spec == Init /\ [][Next]_vars

\* get pcEnvironment()
pcEnvironment == IF Truthy(_pcEnv) THEN _pcEnv.pcEnvTld ELSE Null

----------------------------------------------------------------------------
(* Vocabulary of the properties *)

Present(k) == cfg.t = "object" /\ k \in DOMAIN cfg.props

\* the option the fixed priority selects
Mode ==
    CASE Present("pcEnvironmentQueryParam") -> "pcEnvironmentQueryParam"
      [] Present("pcEnvironment") -> "pcEnvironment"
      [] Present("pcOrigin") -> "pcOrigin"
      [] OTHER -> "none"

\* the value supplied for the selected option
Supplied == cfg.props[Mode]

IsString(v) == v.t = "string"
Blank(v) == IsString(v) /\ \A i \in 1..Len(v.s) : v.s[i] \in WhiteSpace
NonBlank(v) == IsString(v) /\ \E i \in 1..Len(v.s) : v.s[i] \notin WhiteSpace

Observed == window # Undefined

\* the query of the observed page; empty when the page has no location
Query == IF ~Observed \/ window.location = Null THEN <<>> ELSE window.location.search

\* the positions of the query at which the named parameter occurs
Occurrences(name) == {i \in 1..Len(Query) : Query[i].key = name.s}

\* the parameter occurs exactly once and v is its value
SingleValue(name, v) ==
    \E i \in 1..Len(Query) : Occurrences(name) = {i} /\ v = Query[i].value

\* the hint that query-param mode or explicit-environment mode resolves
HasHint(h) ==
    \/ Mode = "pcEnvironment" /\ h = Supplied /\ NonBlank(h)
    \/ /\ Mode = "pcEnvironmentQueryParam" /\ NonBlank(Supplied)
       /\ Observed /\ SingleValue(Supplied, h) /\ IsString(h)

\* the hints of the construction: none or one
Hints ==
    {h \in (CASE Mode = "pcEnvironment" -> {Supplied}
              [] Mode = "pcEnvironmentQueryParam" /\ Observed ->
                    {Query[j].value : j \in 1..Len(Query)}
              [] OTHER -> {}) : HasHint(h)}

InCatalog(d) == \E i \in 1..Len(PC_ENVS) : d = PC_ENVS[i]

Failed == pc = "threw"
Succeeded == pc = "done"
Resolved == pc \in {"default", "apiCfg", "apis", "done"}
Finished == Failed \/ Succeeded

\* the origin the APIs are handed; null while there is none
targetOrigin == IF apiCfg = Undefined THEN Null ELSE apiCfg.targetPcOrigin

\* how a finished construction looks from outside
Result ==
    IF Failed THEN [ok |-> FALSE]
    ELSE [ok |-> TRUE, targetOrigin |-> targetOrigin, pcEnvironment |-> pcEnvironment]

Fail == [ok |-> FALSE]
Ok(origin, tld) == [ok |-> TRUE, targetOrigin |-> origin, pcEnvironment |-> tld]

FromHint(h) ==
    IF IsString(h) /\ lookupPcEnv(h, TRUE) # Null
    THEN Ok(lookupPcEnv(h, TRUE).pcAppOrigin, lookupPcEnv(h, TRUE).pcEnvTld)
    ELSE Fail

\* what the query-param option alone decides
ByQueryParam(name) ==
    IF ~NonBlank(name) THEN Fail
    ELSE IF \E i \in 1..Len(Query) : Occurrences(name) = {i}
         THEN FromHint(Query[CHOOSE i \in 1..Len(Query) : Occurrences(name) = {i}].value)
         ELSE Fail

\* what the environment option alone decides
ByEnvironment(v) == IF NonBlank(v) THEN FromHint(v) ELSE Fail

\* what the origin option alone decides
ByOrigin(v) == IF NonBlank(v) THEN Ok(v, Null) ELSE Fail

----------------------------------------------------------------------------
(* Properties *)

\* C1: the outcome of a finished construction is decided by the highest-priority
\* option that is present (query param, then environment, then origin) and by
\* nothing below it: the lower options neither change the target origin or the
\* accessor nor turn a failure of the option in effect into a success.
C1_PriorityDecides ==
    Finished =>
        CASE Mode = "pcEnvironmentQueryParam" -> Result = ByQueryParam(Supplied)
          [] Mode = "pcEnvironment" -> Result = ByEnvironment(Supplied)
          [] Mode = "pcOrigin" -> Result = ByOrigin(Supplied)
          [] OTHER -> Result.ok

\* a query-param option with a usable name that fails although the environment option below it
\* names a catalog environment and an origin option is present as well
C1_Witness ==
    /\ Failed
    /\ Mode = "pcEnvironmentQueryParam" /\ NonBlank(Supplied)
    /\ Present("pcEnvironment") /\ Present("pcOrigin")
    /\ IsString(cfg.props["pcEnvironment"])
    /\ lookupPcEnv(cfg.props["pcEnvironment"], TRUE) # Null

\* C2: a blank value (empty or only whitespace) for the input mode in effect
\* makes the construction fail: it never gets past resolution.
C2_BlankFails ==
    (Mode # "none" /\ Blank(Supplied)) => (pc \in {"entry", "threw"} /\ apis = <<>>)

\* a whitespace-only, non-empty value has been rejected
C2_Witness ==
    /\ Failed
    /\ Mode = "pcOrigin"
    /\ Blank(Supplied) /\ Len(Supplied.s) > 0

\* C3: in query-param and explicit-environment mode a hint that the fuzzy lookup
\* matches to a descriptor D never fails, and the construction ends with D's host
\* origin as target origin and D's short identifier from the accessor.
C3_MatchedHintResolves ==
    \A i \in 1..Len(PC_ENVS) :
        (\E h \in Hints : lookupPcEnv(h, TRUE) = PC_ENVS[i])
        => /\ ~Failed
           /\ pc \in {"apis", "done"} => targetOrigin = PC_ENVS[i].pcAppOrigin
           /\ Succeeded => pcEnvironment = PC_ENVS[i].pcEnvTld

\* query-param mode has resolved a hint that is not the identifier itself
C3_Witness ==
    /\ Succeeded
    /\ Mode = "pcEnvironmentQueryParam"
    /\ \E j \in 1..Len(Query) :
        /\ HasHint(Query[j].value)
        /\ Query[j].value # pcEnvironment
        /\ lookupPcEnv(Query[j].value, TRUE).pcEnvTld = pcEnvironment

\* C4: in query-param mode with a non-blank name, a page whose query does not
\* hold the parameter exactly once (absent, repeated, or no location at all)
\* makes the construction fail.
C4_NotExactlyOneFails ==
    (/\ Mode = "pcEnvironmentQueryParam" /\ NonBlank(Supplied)
     /\ Observed /\ Cardinality(Occurrences(Supplied)) # 1)
    => (pc \in {"paramValue", "threw"} /\ apis = <<>>)

\* the parameter is repeated and one of its values names a catalog environment
C4_Witness ==
    /\ Failed
    /\ Mode = "pcEnvironmentQueryParam" /\ NonBlank(Supplied)
    /\ Cardinality(Occurrences(Supplied)) = 2
    /\ \E i \in Occurrences(Supplied) :
        IsString(Query[i].value) /\ lookupPcEnv(Query[i].value, TRUE) # Null

\* C5: a hint the fuzzy lookup does not match makes the construction fail; no
\* environment is kept, no custom origin is taken and no target origin is built.
C5_UnmatchedHintFails ==
    \A h \in Hints :
        lookupPcEnv(h, TRUE) = Null
        => /\ pc \in {"entry", "paramValue", "threw"}
           /\ ~Truthy(_pcEnv) /\ _customPcOrigin = Null /\ apiCfg = Undefined

\* an unknown environment has been rejected although a usable origin is supplied
C5_Witness ==
    /\ Failed
    /\ Mode = "pcEnvironment"
    /\ HasHint(Supplied) /\ lookupPcEnv(Supplied, TRUE) = Null
    /\ Present("pcOrigin") /\ NonBlank(cfg.props["pcOrigin"])

\* C6: in origin mode a non-blank value V is taken as it is: the construction
\* does not fail, no catalog environment is set, the target origin is V itself
\* (untrimmed, whether or not V names a catalog environment) and the accessor
\* returns null.
C6_OriginVerbatim ==
    (Mode = "pcOrigin" /\ NonBlank(Supplied))
    => /\ ~Failed
       /\ _pcEnv = Null
       /\ Resolved => _customPcOrigin = Supplied
       /\ pc \in {"apis", "done"} => targetOrigin = Supplied
       /\ Succeeded => pcEnvironment = Null

\* a padded origin that a lenient lookup would have matched has been taken as it is
C6_Witness ==
    /\ Succeeded
    /\ Mode = "pcOrigin"
    /\ Supplied.s # trim(Supplied.s)
    /\ lookupPcEnv(Supplied, TRUE) # Null
    /\ targetOrigin = Supplied

\* C7: construction is atomic. A failed construction has no API; an API exists
\* only after a resolution without error, with the configuration already built;
\* a finished construction that did not fail has all seven APIs.
C7_Atomic ==
    /\ Failed => apis = <<>>
    /\ thrown # "none" => (Failed /\ apis = <<>>)
    /\ apis # <<>> => (pc \in {"apis", "done"} /\ thrown = "none" /\ NonBlank(targetOrigin))
    /\ Succeeded => {apis[i].name : i \in 1..Len(apis)} =
                        {ApiNames[i] : i \in 1..Len(ApiNames)}
    /\ Len(apis) = Len(ApiNames) => Succeeded

\* a failure late in the resolution, after the page has been read, left no API
C7_Witness ==
    /\ Failed
    /\ Observed
    /\ apis = <<>>

\* C8: after a successful construction exactly one of the catalog environment and
\* the custom origin is set, and the target origin every API got is a non-empty
\* string: the host origin of that catalog environment or the pcOrigin supplied.
C8_ExactlyOneSource ==
    Succeeded =>
        /\ (_pcEnv # Null) # (_customPcOrigin # Null)
        /\ IsString(targetOrigin) /\ Len(targetOrigin.s) > 0
        /\ \/ InCatalog(_pcEnv) /\ targetOrigin = _pcEnv.pcAppOrigin
           \/ /\ _pcEnv = Null /\ Present("pcOrigin")
              /\ targetOrigin = cfg.props["pcOrigin"] /\ targetOrigin = _customPcOrigin
        /\ \A i \in 1..Len(apis) : apis[i].api.targetPcOrigin = targetOrigin

\* a construction has succeeded on a custom origin
C8_Witness ==
    /\ Succeeded
    /\ _customPcOrigin # Null
    /\ _pcEnv = Null

\* C9: without a recognised option (no cfg, null, {} or unrecognised keys only)
\* the construction does not fail and does not read the page; the target origin
\* is the default environment's host origin and the accessor returns the default
\* environment's short identifier.
C9_DefaultEnvironment ==
    Mode = "none"
    => /\ ~Failed
       /\ ~Observed /\ parsedQueryString = Undefined
       /\ pc \in {"apis", "done"} => targetOrigin = DEFAULT_PC_ENV.pcAppOrigin
       /\ Succeeded => pcEnvironment = DEFAULT_PC_ENV.pcEnvTld

\* a null cfg has been constructed on the default environment
C9_Witness ==
    /\ Succeeded
    /\ cfg = Null
    /\ targetOrigin = Str(<<"https://apps.", "mypurecloud.com">>)

\* C10: the APIs are built in the order of the assignments, each from the one
\* configuration: whatever APIs exist hold the target origin of apiCfg, which is
\* there before the first of them and the same for all seven at the end.
C10_SameConfiguration ==
    /\ apis # <<>> => apiCfg # Undefined
    /\ \A i \in 1..Len(apis) :
        /\ apis[i].name = ApiNames[i]
        /\ apis[i].api.targetPcOrigin = apiCfg.targetPcOrigin
    /\ \A i, j \in 1..Len(apis) : apis[i].api = apis[j].api
    /\ Succeeded => Len(apis) = Len(ApiNames)

\* all seven APIs exist after a resolution from the query string
C10_Witness ==
    /\ Succeeded
    /\ Len(apis) = 7
    /\ Mode = "pcEnvironmentQueryParam"
    /\ apis[7].api.targetPcOrigin = apis[1].api.targetPcOrigin

TypeOK ==
    /\ pc \in {"entry", "getQueryString", "paramValue", "default", "apiCfg", "apis", "done", "threw"}
    /\ Len(apis) <= Len(ApiNames)
====
